---- MODULE Spec2Model ----
(***************************************************************************)
(* Model of ddv_ready.py: the availability scan of the Louvre DDV page.    *)
(*                                                                         *)
(* scan_month opens one HTTP client, asks the provider for the active      *)
(* dates of a month (date.list.nt), keeps the dates that fall on a target  *)
(* weekday and runs one fetch_timeslots_with_retry coroutine per kept      *)
(* date under one asyncio.Semaphore.  The coroutines are asyncio tasks:    *)
(* a task runs without interruption between two suspension points, which   *)
(* are the wait for the semaphore, the wait for the HTTP response and the  *)
(* backoff sleep.                                                          *)
(*                                                                         *)
(* Time is counted in ticks of half a second, the granularity of the       *)
(* backoff random.uniform(0.5, 1.0).  Code that does not suspend takes no  *)
(* time: the clock advances only when every task is suspended.             *)
(***************************************************************************)
EXTENDS Integers, Sequences, FiniteSets, TLC

(***************************************************************************)
(* Bounds of the model.                                                    *)
(***************************************************************************)
\* longest active-date list the provider answers with
MaxDates == 2
\* longest product list of one ticket.list answer
MaxProducts == 2
\* largest value of the concurrency argument
MaxConcurrency == 2
\* largest value of the retry_seconds argument, in seconds
MaxRetry == 1
ScriptLen == 2
\* the year and month that are scanned, and the days the provider may list
ScanYear == 2025
ScanMonth == 3
FirstDay == 3
LastDay == 5

(***************************************************************************)
(* Program constants.                                                      *)
(***************************************************************************)
\* TARGET_WEEKDAYS: Monday = 0, Wednesday = 2, Friday = 4, Sunday = 6
TARGET_WEEKDAYS == {0, 2, 4, 6}
\* ticks per second: one tick is the 0.5 s of random.uniform(0.5, 1.0)
TicksPerSecond == 2
\* shortest and longest backoff sleep, in ticks (0.5 s and 1.0 s)
SleepMin == 1
SleepMax == 2

\* the clock saturates here, past every deadline and every last sleep
MaxTime == TicksPerSecond * (MaxRetry + 2)

(***************************************************************************)
(* Values.                                                                 *)
(***************************************************************************)
\* Python's None, for last_error and for the err of a successful probe
None == "<None>"
\* the value of d.get("date") on an object without a date
NoDate == <<>>
\* a "YYYY-MM-DD" string, as its three numbers
DateStrings == {<<ScanYear, ScanMonth, d>> : d \in FirstDay..LastDay}
\* a time label such as "09:00", as the string of its leading characters;
\* the empty string is a missing (or empty) field
T0800 == <<0, 8>>
T0900 == <<0, 9>>
T1000 == <<1, 0>>
T9 == <<9>>
NoTime == <<>>
\* the "available" field of a product when the provider sends none
Absent == -1

\* the sequences over S of length at most n
SeqUpTo(S, n) == UNION {[1..k -> S] : k \in 0..n}

\* one element of the "date" list of a date.list.nt answer: an object with a
\* date field, an object without one, or a bare string
DateEntries ==
    {[kind |-> "obj", date |-> ds] : ds \in DateStrings}
    \cup {[kind |-> "obj", date |-> NoDate], [kind |-> "bare", date |-> NoDate]}

\* what api_post returns for date.list.nt: the error mapping, or the JSON
EnumResponses ==
    {[kind |-> "error", date |-> <<>>]}
    \cup {[kind |-> "ok", date |-> ds] : ds \in SeqUpTo(DateEntries, MaxDates)}

\* one element of the "product" list of a ticket.list answer
Products ==
    { [time |-> T0900, startTime |-> NoTime, start_time |-> NoTime, available |-> 2],
      [time |-> T1000, startTime |-> NoTime, start_time |-> NoTime, available |-> 0],
      [time |-> NoTime, startTime |-> T9, start_time |-> T0800, available |-> Absent],
      [time |-> NoTime, startTime |-> NoTime, start_time |-> NoTime, available |-> 1] }

\* the messages of the exceptions api_post turns into "__error__"; an httpx
\* timeout has an empty message
ErrorMessages == {"", "Client error '403 Forbidden'"}
\* the message of the exception raised on a JSON of an unexpected shape
ShapeMessage == "object has no attribute 'get'"

\* what api_post returns for ticket.list: the error mapping, a JSON whose
\* shape the extraction cannot read, or a JSON with a product list
ProbeResponses ==
    {[kind |-> "error", reason |-> m, product |-> <<>>] : m \in ErrorMessages}
    \cup {[kind |-> "malformed", reason |-> ShapeMessage, product |-> <<>>]}
    \cup {[kind |-> "ok", reason |-> None, product |-> ps] :
            ps \in SeqUpTo(Products, MaxProducts)}

\* the ticket.list answers of a scan of several dates: every kind of answer,
\* the readable ones with no product or with the one product of 09:00
ScanResponses ==
    {r \in ProbeResponses :
        r.kind = "ok" => (Len(r.product) <= 1 /\ \A k \in 1..Len(r.product) : r.product[k].time = T0900)}

\* the date.list.nt answers that list one date
OneDateResponses ==
    {[kind |-> "ok", date |-> <<[kind |-> "obj", date |-> ds]>>] : ds \in DateStrings}

\* the answer a task holds before its first request
NoResponse == [kind |-> "none", reason |-> None, product |-> <<>>]

(***************************************************************************)
(* Pure functions of the program.                                          *)
(***************************************************************************)
\* datetime.strptime(ds, "%Y-%m-%d").weekday(): the days since 1970-01-01
\* (a Thursday, weekday 3), modulo 7
DaysFromCivil(y, m, d) ==
    LET yy  == IF m <= 2 THEN y - 1 ELSE y
        era == yy \div 400
        yoe == yy - era * 400
        mp  == IF m > 2 THEN m - 3 ELSE m + 9
        doy == (153 * mp + 2) \div 5 + d - 1
        doe == yoe * 365 + yoe \div 4 - yoe \div 100 + doy
    IN  era * 146097 + doe - 719468

Weekday(ds) == (DaysFromCivil(ds[1], ds[2], ds[3]) + 3) % 7

\* a filter that lets every weekday through
InTarget_AnyDay(wk) == wk \in 0..6

\* wk in TARGET_WEEKDAYS
InTarget(wk) == wk \in TARGET_WEEKDAYS

\* the target days of the scanned month, taken from the calendar and not from
\* the provider's list
RECURSIVE CalendarDates(_)
CalendarDates(d) ==
    IF d > LastDay THEN <<>>
    ELSE (IF Weekday(<<ScanYear, ScanMonth, d>>) \in TARGET_WEEKDAYS
          THEN <<(<<ScanYear, ScanMonth, d>>)>> ELSE <<>>) \o CalendarDates(d + 1)

FilterDates_Calendar(dates) == CalendarDates(FirstDay)

\* the loop of scan_month over the provider's list: entries without a date
\* are skipped, dates on a target weekday are kept in the provider's order
RECURSIVE FilterDates(_)
FilterDates(dates) ==
    IF dates = <<>> THEN <<>>
    ELSE LET d == Head(dates)
             rest == FilterDates(Tail(dates))
         IN  IF d.date = NoDate THEN rest
             ELSE IF InTarget(Weekday(d.date)) THEN <<d.date>> \o rest
             ELSE rest

\* d.get("date") raises AttributeError on an entry that is not an object; the
\* loop stops at the first such entry that it reaches
Raises(dates) == \E k \in 1..Len(dates) : dates[k].kind = "bare"

\* Python's order on strings
RECURSIVE StrLess(_, _)
StrLess(a, b) ==
    IF b = <<>> THEN FALSE
    ELSE IF a = <<>> THEN TRUE
    ELSE IF Head(a) # Head(b) THEN Head(a) < Head(b)
    ELSE StrLess(Tail(a), Tail(b))

\* insertion of one string into a sorted list, after its equals
RECURSIVE Insert(_, _)
Insert(t, s) ==
    IF s = <<>> THEN <<t>>
    ELSE IF StrLess(t, Head(s)) THEN <<t>> \o s
    ELSE <<Head(s)>> \o Insert(t, Tail(s))

\* sorted(times)
RECURSIVE Sorted(_)
Sorted(s) == IF s = <<>> THEN <<>> ELSE Insert(s[Len(s)], Sorted(SubSeq(s, 1, Len(s) - 1)))

\* p.get("time") or p.get("startTime") or p.get("start_time")
TimeOf(p) ==
    IF p.time # NoTime THEN p.time
    ELSE IF p.startTime # NoTime THEN p.startTime
    ELSE p.start_time

\* the loop over products: every product with a time is kept
RECURSIVE Times(_)
Times(products) ==
    IF products = <<>> THEN <<>>
    ELSE LET t == TimeOf(Head(products))
         IN  (IF t # NoTime THEN <<t>> ELSE <<>>) \o Times(Tail(products))

\* the slot list a probe returns for a readable answer
SlotTimes(products) == Sorted(Times(products))

\* a probe that goes on retrying until the slot list is not empty
Succeeds_NonEmpty(r) == r.kind = "ok" /\ SlotTimes(r.product) # <<>>

\* the try block ends in its return: the answer is no error mapping and the
\* extraction raises nothing
Succeeds(r) == r.kind = "ok"

\* last_error or "timeout"
ErrOf(last) == IF last \in {None, ""} THEN "timeout" ELSE last

(***************************************************************************)
(* State.                                                                  *)
(***************************************************************************)
VARIABLES
    scanPc,         \* where scan_month is: "idle", "enum", "gather", "returned", "raised"
    client,         \* the httpx.AsyncClient of the scan: "none", "open", "closed"
    concurrency,    \* argument of scan_month
    retry_seconds,  \* argument of scan_month
    raw_first,      \* the answer to date.list.nt
    date_strs,      \* the dates that are probed, one task each
    sem,            \* the counter of asyncio.Semaphore(concurrency)
    now,            \* the clock, in ticks since the tasks were created
    pc,             \* per task: "new", "wait", "flight", "sleep", "done"
    deadline,       \* per task: local variable deadline
    last_error,     \* per task: local variable last_error
    resp,           \* per task: the last value api_post returned to it
    wake,           \* per task: ticks left of its backoff sleep
    results,        \* per task: the triple it returned
    data,           \* the mapping scan_month returns
    errors,         \* the mapping scan_month shows as diagnostics
    allErr,         \* history, per task: every answer so far was an error mapping
    posts,          \* history, per task: POSTs sent by its latest call of api_post
    late,           \* history, per task: its latest request was sent at or after its deadline
    tries,          \* history, per task: answers received
    enumCalls,      \* history: date.list.nt requests issued
    provider        \* the script of a provider that answers by one, if it is one

scanVars == <<scanPc, client, concurrency, retry_seconds, raw_first, date_strs, data, errors,
              enumCalls, provider>>
taskVars == <<sem, pc, deadline, last_error, resp, wake, results>>
histVars == <<allErr, posts, late, tries>>
vars == <<scanVars, taskVars, histVars, now>>

Tasks == 1..Len(date_strs)

\* the empty mapping {}
EmptyMap == <<>>

\* a provider that is free to answer every request as it likes
FreeProvider == <<>>

\* the state before asyncio.run(scan_month(...)), but for the provider
InitScan ==
    /\ scanPc = "idle"
    /\ client = "none"
    /\ concurrency \in 1..MaxConcurrency
    /\ retry_seconds \in 1..MaxRetry
    /\ raw_first = [kind |-> "none", date |-> <<>>]
    /\ date_strs = <<>>
    /\ sem = 0
    /\ now = 0
    /\ pc = <<>>
    /\ deadline = <<>>
    /\ last_error = <<>>
    /\ resp = <<>>
    /\ wake = <<>>
    /\ results = <<>>
    /\ data = EmptyMap
    /\ errors = EmptyMap
    /\ allErr = <<>>
    /\ posts = <<>>
    /\ late = <<>>
    /\ tries = <<>>
    /\ enumCalls = 0

Init == InitScan /\ provider = FreeProvider

(***************************************************************************)
(* scan_month.                                                             *)
(***************************************************************************)
\* a scan that asks for the date list twice
SendDateList_Twice(n) == n + 2

\* fetch_date_list calls api_post once
SendDateList(n) == n + 1

\* async with make_client() as client; fetch_date_list sends date.list.nt
StartScan ==
    /\ scanPc = "idle"
    /\ scanPc' = "enum"
    /\ client' = "open"
    /\ enumCalls' = SendDateList(enumCalls)
    /\ UNCHANGED <<concurrency, retry_seconds, raw_first, date_strs, data, errors, provider>>
    /\ UNCHANGED <<taskVars, histVars, now>>

\* data.get("api", {}).get("result", {}).get("date", []) or []
DateList(r) == IF r.kind = "ok" THEN r.date ELSE <<>>

\* asyncio.Semaphore(concurrency)
NewSemaphore(n) == n

\* an exit of scan_month that leaves the client open
ExitWith_Leak(c) == c

\* leaving the block of async with make_client() as client closes the client
ExitWith(c) == "closed"

\* api_post returns r for date.list.nt; scan_month filters the dates and
\* creates the semaphore and one task per kept date, or an exception of the
\* filter loop leaves scan_month through the async with, which closes the client
EnumRespond(r) ==
    /\ scanPc = "enum"
    /\ raw_first' = r
    /\ IF Raises(DateList(r))
       THEN /\ scanPc' = "raised"
            /\ client' = ExitWith(client)
            /\ UNCHANGED <<date_strs, taskVars, histVars>>
       ELSE LET ds == FilterDates(DateList(r))
                T  == 1..Len(ds)
            IN  /\ scanPc' = "gather"
                /\ date_strs' = ds
                /\ sem' = NewSemaphore(concurrency)
                /\ pc' = [i \in T |-> "new"]
                /\ deadline' = [i \in T |-> 0]
                /\ last_error' = [i \in T |-> None]
                /\ resp' = [i \in T |-> NoResponse]
                /\ wake' = [i \in T |-> 0]
                /\ results' = [i \in T |-> <<ds[i], <<>>, None>>]
                /\ allErr' = [i \in T |-> TRUE]
                /\ posts' = [i \in T |-> 0]
                /\ late' = [i \in T |-> FALSE]
                /\ tries' = [i \in T |-> 0]
                /\ UNCHANGED client
    /\ UNCHANGED <<concurrency, retry_seconds, data, errors, enumCalls, provider, now>>

\* the last triple of date d among the triples I of a list of triples: the
\* one a dict comprehension keeps for the key d
LastOf(rs, I, d) ==
    CHOOSE i \in I : rs[i][1] = d /\ \A j \in I : rs[j][1] = d => j <= i

\* a mapping that leaves out the dates whose probe failed
DataOf_DropFailed(rs) ==
    LET I == {i \in DOMAIN rs : rs[i][3] = None}
    IN  [d \in {rs[i][1] : i \in I} |-> rs[LastOf(rs, I, d)][2]]

\* data = {d: ts for d, ts, _err in results}
DataOf(rs) ==
    [d \in {rs[i][1] : i \in DOMAIN rs} |-> rs[LastOf(rs, DOMAIN rs, d)][2]]

\* errors = {d: err for d, _ts, err in results if err}
ErrorsOf(rs) ==
    LET I == {i \in DOMAIN rs : rs[i][3] \notin {None, ""}}
    IN  [d \in {rs[i][1] : i \in I} |-> rs[LastOf(rs, I, d)][3]]

\* asyncio.gather returns when every task has returned; scan_month builds the
\* two mappings, returns data, and the async with closes the client
Collect ==
    /\ scanPc = "gather"
    /\ \A i \in Tasks : pc[i] = "done"
    /\ data' = DataOf(results)
    /\ errors' = ErrorsOf(results)
    /\ scanPc' = "returned"
    /\ client' = ExitWith(client)
    /\ UNCHANGED <<concurrency, retry_seconds, raw_first, date_strs, enumCalls, provider>>
    /\ UNCHANGED <<taskVars, histVars, now>>

(***************************************************************************)
(* fetch_timeslots_with_retry, task i.                                     *)
(***************************************************************************)
\* while now < deadline: the task goes on to async with sem; else it returns
\* the triple (date_str, [], last_error or "timeout")
LoopTest(i) ==
    IF now < deadline'[i]
    THEN /\ pc' = [pc EXCEPT ![i] = "wait"]
         /\ UNCHANGED results
    ELSE /\ pc' = [pc EXCEPT ![i] = "done"]
         /\ results' = [results EXCEPT ![i] = <<date_strs[i], <<>>, ErrOf(last_error'[i])>>]

\* the task starts: deadline = now + retry_seconds, last_error = None, and
\* the first test of the loop
ProbeStart(i) ==
    /\ scanPc = "gather"
    /\ pc[i] = "new"
    /\ deadline' = [deadline EXCEPT ![i] = now + retry_seconds * TicksPerSecond]
    /\ last_error' = [last_error EXCEPT ![i] = None]
    /\ LoopTest(i)
    /\ UNCHANGED <<sem, resp, wake>>
    /\ UNCHANGED <<scanVars, histVars, now>>

\* a gate that lets every task in
SemFree_NoGate(s) == TRUE

\* a probe that gives its slot back twice, by hand and by the async with
Release_Double(s) == s + 2

\* a slot that is not given back
Release_Leak(s) == s

\* the semaphore lets a task in while its counter is positive; which of the
\* tasks at the gate gets a free slot is left open (asyncio serves them first
\* come first served from Python 3.11 on, and lets the task that has just
\* released the slot take it again before that)
SemFree(s) == s > 0

\* leaving the async with block gives the slot back
Release(s) == s + 1

\* a probe that tests its deadline again once it has the slot, and gives up
\* without a request when the deadline has passed
Acquire_TestAfterGate(i) ==
    /\ scanPc = "gather"
    /\ pc[i] = "wait"
    /\ SemFree(sem)
    /\ IF now < deadline[i]
       THEN /\ sem' = sem - 1
            /\ pc' = [pc EXCEPT ![i] = "flight"]
            /\ posts' = [posts EXCEPT ![i] = 1]
            /\ UNCHANGED results
       ELSE /\ pc' = [pc EXCEPT ![i] = "done"]
            /\ results' = [results EXCEPT ![i] = <<date_strs[i], <<>>, ErrOf(last_error[i])>>]
            /\ UNCHANGED <<sem, posts>>
    /\ late' = [late EXCEPT ![i] = FALSE]
    /\ UNCHANGED <<deadline, last_error, resp, wake>>
    /\ UNCHANGED <<scanVars, allErr, tries, now>>

\* async with sem is entered and api_post sends the ticket.list request, with
\* its one POST
Acquire(i) ==
    /\ scanPc = "gather"
    /\ pc[i] = "wait"
    /\ SemFree(sem)
    /\ sem' = sem - 1
    /\ pc' = [pc EXCEPT ![i] = "flight"]
    /\ posts' = [posts EXCEPT ![i] = 1]
    /\ late' = [late EXCEPT ![i] = (now >= deadline[i])]
    /\ UNCHANGED <<deadline, last_error, resp, wake, results>>
    /\ UNCHANGED <<scanVars, allErr, tries, now>>

\* a task that reads the date of the last task, as a closure over the loop
\* variable ds would
ResultOf_LastDate(i, r) == <<date_strs[Len(date_strs)], SlotTimes(r.product), None>>

\* return date_str, sorted(times), None
ResultOf(i, r) == <<date_strs[i], SlotTimes(r.product), None>>

\* a failed attempt that gives the slot back before the backoff sleep
AfterFailure_Released(s) == s + 1

\* the except clause, and the sleep in it, are inside the async with block:
\* the slot is kept
AfterFailure(s) == s

\* the POSTs of a call of api_post that has sent n and now returns r: one
\* client.post, whose rejection raise_for_status turns into the error mapping
PostsSent(n, r) == n

\* api_post returns r to task i, which runs to its next suspension: on a
\* readable answer it returns the sorted times and leaves the async with; on
\* an error mapping or an exception of the extraction it records the message
\* and starts a backoff sleep of s ticks, still inside the async with
Respond(i, r, s) ==
    /\ scanPc = "gather"
    /\ pc[i] = "flight"
    /\ resp' = [resp EXCEPT ![i] = r]
    /\ allErr' = [allErr EXCEPT ![i] = @ /\ r.kind = "error"]
    /\ posts' = [posts EXCEPT ![i] = PostsSent(@, r)]
    /\ tries' = [tries EXCEPT ![i] = @ + 1]
    /\ IF Succeeds(r)
       THEN /\ results' = [results EXCEPT ![i] = ResultOf(i, r)]
            /\ sem' = Release(sem)
            /\ pc' = [pc EXCEPT ![i] = "done"]
            /\ UNCHANGED <<last_error, wake>>
       ELSE /\ last_error' = [last_error EXCEPT ![i] = r.reason]
            /\ wake' = [wake EXCEPT ![i] = s]
            /\ pc' = [pc EXCEPT ![i] = "sleep"]
            /\ sem' = AfterFailure(sem)
            /\ UNCHANGED results
    /\ UNCHANGED <<deadline, late>>
    /\ UNCHANGED <<scanVars, now>>

\* the sleep is over: the task leaves the async with and tests the loop again
WakeUp(i) ==
    /\ scanPc = "gather"
    /\ pc[i] = "sleep"
    /\ wake[i] = 0
    /\ sem' = Release(sem)
    /\ UNCHANGED <<deadline, last_error>>
    /\ LoopTest(i)
    /\ UNCHANGED <<resp, wake>>
    /\ UNCHANGED <<scanVars, histVars, now>>

\* task i can run now: it is not suspended, or what it waits for is there
Runnable(i) ==
    \/ pc[i] = "new"
    \/ pc[i] = "wait" /\ SemFree(sem)
    \/ pc[i] = "sleep" /\ wake[i] = 0

\* half a second passes while every task is suspended
Tick ==
    /\ scanPc = "gather"
    /\ \E i \in Tasks : pc[i] # "done"
    /\ \A i \in Tasks : ~Runnable(i)
    /\ now' = IF now < MaxTime THEN now + 1 ELSE now
    /\ wake' = [i \in Tasks |-> IF pc[i] = "sleep" THEN wake[i] - 1 ELSE wake[i]]
    /\ UNCHANGED <<sem, pc, deadline, last_error, resp, results>>
    /\ UNCHANGED <<scanVars, histVars>>

\* half a second passes with a provider that answers at once: no request is
\* in flight when the clock advances
TickInstant ==
    /\ \A i \in Tasks : pc[i] # "flight"
    /\ Tick

Next ==
    \/ StartScan
    \/ \E r \in EnumResponses : EnumRespond(r)
    \/ Collect
    \/ \E i \in Tasks : ProbeStart(i)
    \/ \E i \in Tasks : Acquire(i)
    \/ \E i \in Tasks, r \in ScanResponses, s \in SleepMin..SleepMax : Respond(i, r, s)
    \/ \E i \in Tasks : WakeUp(i)
    \/ Tick

Spec == Init /\ [][Next]_vars

\* the scan against a provider that answers every request at once
NextInstant ==
    \/ StartScan
    \/ \E r \in EnumResponses : EnumRespond(r)
    \/ Collect
    \/ \E i \in Tasks : ProbeStart(i)
    \/ \E i \in Tasks : Acquire(i)
    \/ \E i \in Tasks, r \in ScanResponses, s \in SleepMin..SleepMax : Respond(i, r, s)
    \/ \E i \in Tasks : WakeUp(i)
    \/ TickInstant

SpecInstant == Init /\ [][NextInstant]_vars

\* the scan of one date, with every product list as the provider's answer
NextProbe ==
    \/ StartScan
    \/ \E r \in OneDateResponses : EnumRespond(r)
    \/ Collect
    \/ \E i \in Tasks : ProbeStart(i)
    \/ \E i \in Tasks : Acquire(i)
    \/ \E i \in Tasks, r \in ProbeResponses, s \in SleepMin..SleepMax : Respond(i, r, s)
    \/ \E i \in Tasks : WakeUp(i)
    \/ Tick

SpecProbe == Init /\ [][NextProbe]_vars

\* the steps task i takes by itself
TaskStep(i) ==
    /\ i \in Tasks
    /\ (ProbeStart(i) \/ Acquire(i) \/ WakeUp(i))

\* the provider answers the request of task i
Answer(i) ==
    /\ i \in Tasks
    /\ \E r \in ScanResponses, s \in SleepMin..SleepMax : Respond(i, r, s)

\* the dates a scan can ask the provider about
ProbedDates == {d \in DateStrings : Weekday(d) \in TARGET_WEEKDAYS}

\* the ticket.list answers of a scripted provider: a rejection, no product,
\* or the one product of 09:00
ScriptAnswers == {r \in ScanResponses : r.kind = "ok" \/ r.reason \notin {"", ShapeMessage}}

\* a script is the answer to the first request of a probe and the answer to
\* every later one
Scripts == [1..ScriptLen -> ScriptAnswers]

\* the providers without randomness: the answer to a request is fixed by its
\* date and by the number of requests the probe has made before
Providers == [ProbedDates -> Scripts]

\* the answer of script sc to the request that follows n answers
AnswerOf(sc, n) == sc[IF n + 1 <= Len(sc) THEN n + 1 ELSE Len(sc)]

InitDet == InitScan /\ provider \in Providers

\* the scan against a provider without randomness: the order of the tasks,
\* the time an answer takes and the backoff sleeps stay free
NextDet ==
    \/ StartScan
    \/ \E r \in EnumResponses : EnumRespond(r)
    \/ Collect
    \/ \E i \in Tasks : ProbeStart(i)
    \/ \E i \in Tasks : Acquire(i)
    \/ \E i \in Tasks, s \in SleepMin..SleepMax :
          Respond(i, AnswerOf(provider[date_strs[i]], tries[i]), s)
    \/ \E i \in Tasks : WakeUp(i)
    \/ Tick

SpecDet == InitDet /\ [][NextDet]_vars

\* The event loop runs every task that can run, time advances, and every
\* transport call returns.
FairSpec ==
    /\ Spec
    /\ WF_vars(StartScan)
    /\ WF_vars(\E r \in EnumResponses : EnumRespond(r))
    /\ WF_vars(Collect)
    /\ WF_vars(Tick)
    /\ \A i \in 1..MaxDates : WF_vars(TaskStep(i)) /\ WF_vars(Answer(i))

(***************************************************************************)
(* Properties.                                                             *)
(***************************************************************************)
\* the tasks whose ticket.list request is in flight
InFlight == {i \in Tasks : pc[i] = "flight"}

\* the task whose triple the mappings keep for its date
IsLast(i) == \A j \in Tasks : date_strs[j] = date_strs[i] => j <= i

\* the slot list task i got from the provider: that of its last answer when
\* the answer was readable, none otherwise
OwnSlots(i) == IF resp[i].kind = "ok" THEN SlotTimes(resp[i].product) ELSE <<>>

\* the dates of the provider's active-date answer
Listed == {raw_first.date[k].date : k \in 1..Len(raw_first.date)} \ {NoDate}

\* C1: at every moment of a scan the number of probes with a ticket.list
\* request in flight is at most the concurrency argument.
C1_ConcurrencyBound == Cardinality(InFlight) <= concurrency

\* C1 witness: as many requests in flight as the limit allows, and a further
\* probe kept waiting at the semaphore.
C1_Witness ==
    /\ scanPc = "gather"
    /\ Cardinality(InFlight) = concurrency
    /\ \E i \in Tasks : pc[i] = "wait"

\* a probe that has got an answer of one of the kinds K has returned, with the
\* sorted times of that answer and no error, in the step that received the
\* answer, and sends no request afterwards
C2_Step(K) ==
    \A i \in Tasks :
        /\ (pc[i] = "flight" /\ pc'[i] # "flight" /\ resp'[i].kind \in K)
              => /\ pc'[i] = "done"
                 /\ results'[i] = <<date_strs[i], SlotTimes(resp'[i].product), None>>
        /\ (resp[i].kind \in K) => (pc'[i] = "done" /\ results'[i] = results[i])

\* C2 as stated: after any answer that is no error mapping the probe returns
\* Success at once and issues no further request.
C2_NonErrorAnswerEndsProbe == [][C2_Step({"ok", "malformed"})]_vars

\* C2 amended: after an answer that is no error mapping and whose payload the
\* extraction can read, the probe returns Success with the sorted times of
\* that answer at once and issues no further request, also when the list is
\* empty and the deadline has not passed.
C2_ReadableAnswerEndsProbe == [][C2_Step({"ok"})]_vars

\* C2 witness: a probe has returned on an empty product list before its
\* deadline.
C2_Witness ==
    \E i \in Tasks :
        /\ pc[i] = "done"
        /\ resp[i].kind = "ok" /\ resp[i].product = <<>>
        /\ results[i] = <<date_strs[i], <<>>, None>>
        /\ now < deadline[i]

\* C3: once the filter loop has produced the candidate dates, no outcome of a
\* probe makes scan_month raise: the mapping it returns has exactly the
\* candidate dates as keys, and the slot list of a date is the one its own
\* probe got, whatever happened to the other probes.
C3_ProbeFailuresDoNotAbort ==
    /\ scanPc = "raised" => (Raises(DateList(raw_first)) /\ pc = <<>>)
    /\ scanPc = "returned" =>
          /\ DOMAIN data = {date_strs[i] : i \in Tasks}
          /\ \A i \in Tasks : IsLast(i) => data[date_strs[i]] = OwnSlots(i)

\* C3 witness: a scan of two dates has returned; one probe failed on every
\* attempt, the other got a slot.
C3_Witness ==
    /\ scanPc = "returned"
    /\ \E i, j \in Tasks :
          /\ date_strs[i] # date_strs[j]
          /\ resp[i].kind \in {"error", "malformed"} /\ data[date_strs[i]] = <<>>
          /\ data[date_strs[j]] = <<T0900>>

C5_WeekdayFilter ==
    /\ \A i \in Tasks : Weekday(date_strs[i]) \in TARGET_WEEKDAYS
    /\ \A d \in DOMAIN data : Weekday(d) \in TARGET_WEEKDAYS

\* C5 witness: the provider listed a date on a target weekday and a date on
\* another weekday, and the scan returned the first alone.
C5_Witness ==
    /\ scanPc = "returned"
    /\ \E d, e \in Listed :
          /\ Weekday(d) \in TARGET_WEEKDAYS
          /\ Weekday(e) \notin TARGET_WEEKDAYS
          /\ DOMAIN data = {d}

\* C6: a date the provider's active-date answer does not list gets no probe
\* and is no key of the returned mapping.
C6_OnlyListedDates ==
    /\ \A i \in Tasks : date_strs[i] \in Listed
    /\ \A d \in DOMAIN data : d \in Listed

\* C6 witness: of two dates on target weekdays the provider listed one, and
\* the scan returned that one alone.
C6_Witness ==
    /\ scanPc = "returned"
    /\ \E d, e \in DateStrings :
          /\ d # e
          /\ Weekday(d) \in TARGET_WEEKDAYS /\ Weekday(e) \in TARGET_WEEKDAYS
          /\ Listed = {d}
          /\ DOMAIN data = {d}

\* the times of the products whose remaining capacity is a positive number
RECURSIVE AvailableTimes(_)
AvailableTimes(products) ==
    IF products = <<>> THEN <<>>
    ELSE LET p == Head(products)
         IN  (IF p.available > 0 /\ TimeOf(p) # NoTime THEN <<TimeOf(p)>> ELSE <<>>)
             \o AvailableTimes(Tail(products))

\* C7: a probe that returns on a readable answer returns the sorted times of
\* the products whose remaining capacity is a positive number, and of no
\* other product.
C7_OnlyPositiveCapacity ==
    \A i \in Tasks :
        (pc[i] = "done" /\ resp[i].kind = "ok")
            => results[i][2] = Sorted(AvailableTimes(resp[i].product))

\* task i got an error mapping for every request it sent, and sent one
RejectedThroughout(i) == allErr[i] /\ resp[i].kind = "error"

\* C8: when every attempt for a date was rejected, the scan maps the date to
\* the empty slot list and its diagnostics say "timeout" for the date, not
\* the message of an error.
C8_RejectedDateIsTimedOut ==
    scanPc = "returned" =>
        \A i \in Tasks :
            (IsLast(i) /\ RejectedThroughout(i))
                => /\ data[date_strs[i]] = <<>>
                   /\ date_strs[i] \in DOMAIN errors
                   /\ errors[date_strs[i]] = "timeout"

\* C9: when the date.list.nt call fails, scan_month starts no probe, raises
\* nothing, and returns a value that differs from the empty mapping it
\* returns when the provider answered and no date qualified.
C9_EnumerationFailureIsTold ==
    raw_first.kind = "error" =>
        /\ scanPc # "raised"
        /\ Tasks = {}
        /\ scanPc = "returned" => data # EmptyMap

\* the tick at which task i started
StartOf(i) == deadline[i] - retry_seconds * TicksPerSecond

\* C10: with a provider that answers at once, a probe that got an error
\* mapping on every attempt returns no earlier than retry_seconds after it
\* started and no later than one longest backoff sleep after that, for every
\* number of probes and every concurrency.
C10_TimedOutWithinOneSleep ==
    [][\A i \in Tasks :
          (pc[i] \in {"new", "sleep"} /\ pc'[i] = "done" /\ RejectedThroughout(i))
              => /\ now - StartOf(i) >= retry_seconds * TicksPerSecond
                 /\ now - StartOf(i) <= retry_seconds * TicksPerSecond + SleepMax]_vars

\* what a scan returns for a date the provider answers with r
ExpectedSlots(r) == IF r.kind = "ok" THEN Sorted(Times(r.product)) ELSE <<>>

\* the provider answers every request for date d alike
Stateless(d) == \A m, n \in 1..ScriptLen : provider[d][m] = provider[d][n]

\* the first readable answer of script sc, or its last answer
FirstReadable(sc) ==
    IF \E n \in 1..Len(sc) : sc[n].kind = "ok"
    THEN sc[CHOOSE n \in 1..Len(sc) :
                /\ sc[n].kind = "ok"
                /\ \A m \in 1..(n - 1) : sc[m].kind # "ok"]
    ELSE sc[Len(sc)]

\* C11 as stated: against a provider without randomness the mapping a scan
\* returns is one function of the inputs and of the provider, whatever the
\* order of the tasks and whatever backoff sleeps are drawn. The function
\* is the mapping of the scan whose sleeps are the shortest: every date has
\* the slots of the first readable answer of its script.
C11_ResultIsFunctionOfProvider ==
    scanPc = "returned" =>
        data = [d \in {date_strs[i] : i \in Tasks} |-> ExpectedSlots(FirstReadable(provider[d]))]

\* C11: against a provider that answers every request for the same date
\* alike, the mapping scan_month returns is one function of the probed
\* dates and of the provider's answers, whatever the order in which the
\* tasks ran and finished and whatever backoff sleeps were drawn; so two
\* scans over the same inputs return the same mapping.
C11_ResultIsFunctionOfAnswers ==
    (scanPc = "returned" /\ \A i \in Tasks : Stateless(date_strs[i])) =>
        data = [d \in {date_strs[i] : i \in Tasks} |-> ExpectedSlots(provider[d][1])]

\* two dates behind a gate of one, one of them rejected on every attempt and
\* retried, the other answered with a slot
C11_Witness ==
    /\ scanPc = "returned"
    /\ concurrency = 1
    /\ \E i, j \in Tasks :
          /\ date_strs[i] # date_strs[j]
          /\ Stateless(date_strs[i]) /\ Stateless(date_strs[j])
          /\ provider[date_strs[i]][1].kind = "error"
          /\ tries[i] >= 2
          /\ data[date_strs[j]] # <<>>

\* the two outcomes of one script, a rejection and then a slot: the second
\* request was made, or the window closed during the first sleep
C11_SecondAttemptMade ==
    /\ scanPc = "returned"
    /\ \E i \in Tasks :
          /\ Tasks = {i}
          /\ provider[date_strs[i]][1].kind = "error"
          /\ provider[date_strs[i]][ScriptLen].kind = "ok"
          /\ tries[i] = 2

C11_SecondAttemptMissed ==
    /\ scanPc = "returned"
    /\ \E i \in Tasks :
          /\ Tasks = {i}
          /\ provider[date_strs[i]][1].kind = "error"
          /\ provider[date_strs[i]][ScriptLen].kind = "ok"
          /\ tries[i] = 1

\* C12: a call of api_post whose POST was rejected with a status of 400 or
\* more returns the transport error only after a second POST, and sends at
\* most two.
C12_RejectedPostIsRetried ==
    \A i \in Tasks :
        /\ posts[i] <= 2
        /\ (pc[i] # "flight" /\ resp[i].kind = "error" /\ resp[i].reason # "")
              => posts[i] = 2

\* "YYYY-MM-DD" strings compare as their year, month and day do
DateBefore(a, b) ==
    \/ a[1] < b[1]
    \/ a[1] = b[1] /\ a[2] < b[2]
    \/ a[1] = b[1] /\ a[2] = b[2] /\ a[3] < b[3]

\* C13: whatever the order and the repetitions of the provider's list, the
\* dates the scan probes are ascending and without repetition, so no date
\* has two tasks.
C13_ProbedDatesAscending ==
    \A i, j \in Tasks : i < j => DateBefore(date_strs[i], date_strs[j])

\* C14: when the scan has returned, a date has an entry in errors exactly
\* when its probe timed out; the date of a probe that ended in success has
\* none.
C14_DiagnosticsIffTimedOut ==
    scanPc = "returned" =>
        \A i \in Tasks : (date_strs[i] \in DOMAIN errors) <=> (results[i][3] # None)

\* the tasks that hold a slot: from the request to the answer that ends the
\* probe, or to the end of the backoff sleep
Holders == {i \in Tasks : pc[i] \in {"flight", "sleep"}}

\* C15: every attempt gives its slot back, whatever its outcome: the free
\* slots are those not held by an attempt under way, a finished probe
\* holds none, and when the scan returns all concurrency slots are free.
C15_SlotsGivenBack ==
    /\ scanPc = "gather" => sem = concurrency - Cardinality(Holders)
    /\ scanPc = "returned" => (sem = concurrency /\ Holders = {})

\* a scan behind a gate of one has returned after a probe that timed out on
\* transport errors and a probe that succeeded on a later attempt
C15_Witness ==
    /\ scanPc = "returned"
    /\ concurrency = 1
    /\ sem = 1
    /\ \E i, j \in Tasks :
          /\ allErr[i] /\ results[i][3] # None
          /\ tries[j] >= 2 /\ results[j][3] = None

\* C16: a scan opens one client and never a second, the client is open
\* while the enumeration and the probes run, no request is in flight on a
\* client that is not open, and the client is closed when scan_month has
\* returned or raised.
C16_OneClientClosedAtExit ==
    /\ [](/\ scanPc = "idle" => client = "none"
          /\ scanPc \in {"enum", "gather"} => client = "open"
          /\ scanPc \in {"returned", "raised"} => client = "closed"
          /\ InFlight # {} => client = "open")
    /\ [][client' # client =>
              \/ client = "none" /\ client' = "open"
              \/ client = "open" /\ client' = "closed"]_vars

\* an exception has left scan_month and the client is closed
C16_Witness ==
    /\ scanPc = "raised"
    /\ client = "closed"
    /\ enumCalls = 1

\* C17: a scan sends date.list.nt once, and no probe exists, let alone has
\* sent a request, before the answer to it has come.
C17_EnumerationBeforeProbes ==
    /\ scanPc = "idle" => enumCalls = 0
    /\ scanPc # "idle" => enumCalls = 1
    /\ scanPc \in {"idle", "enum"} => (Tasks = {} /\ raw_first.kind = "none")
    /\ Tasks # {} => raw_first.kind = "ok"

\* the first ticket.list request is in flight
C17_Witness ==
    /\ enumCalls = 1
    /\ raw_first.kind = "ok"
    /\ \E i \in Tasks :
          /\ pc[i] = "flight"
          /\ \A j \in Tasks : tries[j] = 0

\* C18: retry_seconds being positive, a probe that has returned has sent
\* at least one request and got its answer, also when its deadline passed
\* while it waited for the gate.
C18_RequestBeforeTimedOut ==
    \A i \in Tasks : pc[i] = "done" => (tries[i] >= 1 /\ posts[i] >= 1)

\* a probe timed out whose only request was sent when its deadline had
\* passed
C18_Witness ==
    \E i \in Tasks :
        /\ pc[i] = "done"
        /\ results[i][3] # None
        /\ tries[i] = 1
        /\ late[i]

\* the tasks in the backoff sleep
Sleeping == {i \in Tasks : pc[i] = "sleep"}

\* C19: never more than concurrency probes await an answer or sleep in
\* backoff, and while concurrency probes sleep no waiting probe sends its
\* request.
C19_SlotKeptInBackoff ==
    /\ [](Cardinality(Holders) <= concurrency)
    /\ [][(scanPc = "gather" /\ Cardinality(Sleeping) = concurrency) =>
              \A i \in Tasks : ~(pc[i] = "wait" /\ pc'[i] = "flight")]_vars

\* every slot is held by a sleeping probe while another probe waits
C19_Witness ==
    /\ scanPc = "gather"
    /\ Cardinality(Sleeping) = concurrency
    /\ \E i \in Tasks : pc[i] = "wait"
====
